---- MODULE Spec2Model ----
(***************************************************************************)
(* A model of intellinet-pdu-ctrl: the sideband datagram client            *)
(* (intellinet_pdu_ctrl/udp.py), the configuration and status codec        *)
(* (intellinet_pdu_ctrl/types.py, utils.py) and the device control facade  *)
(* (intellinet_pdu_ctrl/api.py).                                           *)
(*                                                                         *)
(* Bytes are integers 0..255, byte strings are sequences of bytes, text is *)
(* a sequence of one-character strings.  Python's None is the string       *)
(* "None" where a variable holds an exception or nothing.                  *)
(***************************************************************************)
EXTENDS Integers, Sequences, FiniteSets, TLC

VARIABLES
    \* ---- udp.py: _SocketProtocol and IntellinetUDPClient
    packets,        \* _SocketProtocol._packets: the asyncio.Queue's items, oldest first
    error,          \* _SocketProtocol._error: "None" or the captured exception
    maxsize,        \* packets_queue_max_size given to connect(); 0 is unbounded
    closing,        \* the transport has been closed (transport.close() was called)
    lost,           \* connection_lost has been called back
    pc,             \* per caller task: "idle", "waiting" (suspended in Queue.get), "done"
    op,             \* per caller task: the method it is in, "_recvfrom" or "get_voltage"
    result,         \* per caller task: what its last call returned or raised
    scope,          \* the async-with scope of the client: "entered" or "exited"
    exitPath,       \* how the scope was left
    nDelivered,     \* number of datagram_received callbacks so far (history)
    nErrors,        \* number of error_received callbacks so far (history)
    returned,       \* ids of the datagrams _recvfrom has returned, in order (history)
    overflowed,     \* callbacks whose put_nowait raised QueueFull (history)
    \* ---- udp.py: with_checksum applied to a message
    msg,            \* the message handed to with_checksum
    framed,         \* <<>>, or with_checksum(msg) once it is computed
    \* ---- types.py, utils.py, api.py: a record is encoded, shown by the
    \* device as markup and decoded; or a page of the device is decoded
    ckind,          \* "None", "thresholds", "network", "outlets" or "status"
    cstep,          \* "start", "value", "encoded", "rendered" or "decoded"
    cvalue,         \* the record handed to the encoder
    cfields,        \* the field mapping the encoder produced
    cdoc,           \* the page: parsed markup
    cedits,         \* how many changes were made to the page after rendering
    cout,           \* what from_xml returned or raised
    \* ---- api.py: the facade's credentials, and the device it talks to
    credentials,    \* IPU.credentials: the (username, password) the requests carry
    devCreds,       \* the credentials the device accepts
    devVerify,      \* the userVerifyRes the device reports in status.xml
    fpc,            \* where the facade is: "idle", "posted" or "finished"
    pendingNew,     \* the credentials a credential change asked for
    oldCreds,       \* the credentials held when the change was started
    seenCode,       \* the userVerifyRes read after the change (-1: none read)
    fresult,        \* "None", "ok" or the exception the change raised
    lastAuth        \* the credentials the last request carried

udpVars == <<packets, error, maxsize, closing, lost, pc, op, result, scope,
             exitPath, nDelivered, nErrors, returned, overflowed>>
sumVars == <<msg, framed>>
codecVars == <<ckind, cstep, cvalue, cfields, cdoc, cedits, cout>>
facadeVars == <<credentials, devCreds, devVerify, fpc, pendingNew, oldCreds,
                seenCode, fresult, lastAuth>>
vars == <<udpVars, sumVars, codecVars, facadeVars>>

(***************************************************************************)
(* Bounds of the model.                                                    *)
(***************************************************************************)
MaxDatagrams == 2       \* datagram_received callbacks in one run
MaxErrors == 1          \* error_received callbacks in one run
MaxQueue == 1           \* largest packets_queue_max_size tried
MaxMsgLen == 3          \* longest message handed to with_checksum on its own
MaxChanged == 1         \* outlets of a bank that differ from the common setting
MaxEdits == 1           \* changes made to a page before it is decoded

\* The tasks that use the client, and the method each of them calls: one asks
\* for readings, the other receives datagrams directly.
Callers == {"t1", "t2"}
MethodOf(c) == IF c = "t1" THEN "get_voltage" ELSE "_recvfrom"

\* Byte values the message bytes are drawn from: they include pairs whose sum
\* passes 255.
ByteSet == {0, 1, 6, 127, 128, 167, 230, 255}

(***************************************************************************)
(* udp.py: the checksum                                                    *)
(***************************************************************************)
Last(s) == s[Len(s)]
Front(s) == SubSeq(s, 1, Len(s) - 1)

\* c & 0xFF and c >> n on non-negative integers
LowByte(c) == c % 256
ShiftRight(c, n) == c \div (2 ^ n)

\* the reference 8-bit ones'-complement addition: the carry out of bit 7 is
\* folded back into the low byte
ref_ones_comp_add(a, b) == LowByte(a + b) + ShiftRight(a + b, 8)

ones_comp_add(a, b) == LowByte(a + b) + ShiftRight(a + b, 16)

RECURSIVE checksum_of(_)
checksum_of(m) ==
    IF m = <<>> THEN 0 ELSE ones_comp_add(checksum_of(Front(m)), Last(m))

RECURSIVE ref_checksum_of(_)
ref_checksum_of(m) ==
    IF m = <<>> THEN 0 ELSE ref_ones_comp_add(ref_checksum_of(Front(m)), Last(m))

\* bytes([checksum]) raises ValueError outside 0..255; the sum never leaves it
with_checksum(m) == Append(m, checksum_of(m))

(***************************************************************************)
(* udp.py: the frames of the sideband protocol                             *)
(***************************************************************************)
QueryCommand == <<167, 64, 6, 0>>       \* b"\xa7\x40\x06\x00"
ReplyMagic == <<167, 66, 6, 8>>         \* b"\xa7\x42\x06\x08"
ReplyLen == 13

RECURSIVE Zeros(_)
Zeros(n) == IF n = 0 THEN <<>> ELSE Append(Zeros(n - 1), 0)

\* a reply the device sends for a reading v: magic, 8 payload bytes, checksum
ReplyFor(v) == with_checksum(ReplyMagic \o <<v>> \o Zeros(7))

\* The datagrams the network delivers: a well-formed reply, an 11-byte reply,
\* a reply with a wrong trailing byte, a 13-byte frame with the query's magic
\* (not UTF-8 text) and one with an ASCII magic.
DatagramPool ==
    { ReplyFor(230),
      with_checksum(ReplyMagic \o <<230>> \o Zeros(5)),
      Append(Front(ReplyFor(230)), LowByte(Last(ReplyFor(230)) + 1)),
      with_checksum(QueryCommand \o <<230>> \o Zeros(7)),
      with_checksum(<<65, 66, 6, 8, 230>> \o Zeros(7)) }

TransportErrors == {"ConnectionRefusedError"}

(***************************************************************************)
(* bytes.decode(): whether a byte string is well-formed UTF-8              *)
(***************************************************************************)
IsCont(b) == b >= 128 /\ b <= 191

RECURSIVE IsUtf8(_)
IsUtf8(d) ==
    IF d = <<>> THEN TRUE
    ELSE LET b == d[1]
             n == Len(d)
         IN  IF b <= 127 THEN IsUtf8(Tail(d))
             ELSE IF b >= 194 /\ b <= 223
                  THEN n >= 2 /\ IsCont(d[2]) /\ IsUtf8(SubSeq(d, 3, n))
             ELSE IF b >= 224 /\ b <= 239
                  THEN /\ n >= 3
                       /\ IsCont(d[2]) /\ IsCont(d[3])
                       /\ (b = 224 => d[2] >= 160)
                       /\ (b = 237 => d[2] <= 159)
                       /\ IsUtf8(SubSeq(d, 4, n))
             ELSE IF b >= 240 /\ b <= 244
                  THEN /\ n >= 4
                       /\ IsCont(d[2]) /\ IsCont(d[3]) /\ IsCont(d[4])
                       /\ (b = 240 => d[2] >= 144)
                       /\ (b = 244 => d[2] <= 143)
                       /\ IsUtf8(SubSeq(d, 5, n))
             ELSE FALSE

(***************************************************************************)
(* udp.py: results of a call                                               *)
(***************************************************************************)
\* what a call returned or raised; id and data are the datagram it dequeued
NoResult ==
    [kind |-> "none", value |-> 0, exc |-> "None", at |-> "None",
     id |-> 0, data |-> <<>>]
Raised(e, where, p) ==
    [kind |-> "error", value |-> 0, exc |-> e, at |-> where,
     id |-> p.id, data |-> p.data]
ReturnedPacket(p) ==
    [kind |-> "packet", value |-> 0, exc |-> "None", at |-> "None",
     id |-> p.id, data |-> p.data]
ReturnedValue(v, p) ==
    [kind |-> "value", value |-> v, exc |-> "None", at |-> "None",
     id |-> p.id, data |-> p.data]

\* the queue's items: a (data, addr) tuple, or None
NoneItem == [none |-> TRUE, id |-> 0, data |-> <<>>]
Dgram(i, d) == [none |-> FALSE, id |-> i, data |-> d]

(***************************************************************************)
(* udp.py: _SocketProtocol                                                 *)
(***************************************************************************)
\* asyncio.Queue.full(): never full when maxsize <= 0
QueueFull == maxsize > 0 /\ Len(packets) >= maxsize

\* asyncio.Queue.put_nowait(item), called from callback who: raises QueueFull
\* and leaves the queue as it is when the queue is full
put_nowait(item, who) ==
    IF QueueFull
    THEN /\ packets' = packets
         /\ overflowed' = overflowed \cup {who}
    ELSE /\ packets' = Append(packets, item)
         /\ overflowed' = overflowed

\* raise_if_error(): the exception it raises ("None": it returns); it leaves
\* _error None either way
raise_if_error == error

\* the three assertions of get_voltage on a dequeued datagram, in order; the
\* second one's message decodes the datagram as UTF-8 before it is raised
get_voltage_checks(p) ==
    LET data == p.data
    IN  IF Len(data) # ReplyLen
        THEN Raised("AssertionError", "validation", p)
        ELSE IF SubSeq(data, 1, 4) # ReplyMagic
        THEN IF IsUtf8(data)
             THEN Raised("AssertionError", "validation", p)
             ELSE Raised("UnicodeDecodeError", "validation", p)
        ELSE IF data # with_checksum(Front(data))
        THEN Raised("AssertionError", "validation", p)
        ELSE ReturnedValue(SubSeq(data, 5, 12)[1], p)

\* _recvfrom() once Queue.get() has handed it item p, with e raised by
\* raise_if_error
recvfrom_outcome(p, e) ==
    IF e # "None" THEN Raised(e, "_recvfrom", p)
    ELSE IF p.none THEN Raised("OSError(closed)", "_recvfrom", p)
    ELSE ReturnedPacket(p)

\* the rest of method m of caller c after the await of Queue.get() returns
Resume(c, m) ==
    LET p == Head(packets)
        r == recvfrom_outcome(p, raise_if_error)
    IN  /\ packets' = Tail(packets)
        /\ error' = "None"
        /\ returned' = IF r.kind = "packet" THEN Append(returned, p.id) ELSE returned
        /\ result' = [result EXCEPT ![c] =
                         IF m = "get_voltage" /\ r.kind = "packet"
                         THEN get_voltage_checks(p) ELSE r]
        /\ pc' = [pc EXCEPT ![c] = "done"]

\* Queue.get(): returns at once when the queue holds an item, else suspends
await_get(c, m) ==
    IF packets = <<>>
    THEN /\ pc' = [pc EXCEPT ![c] = "waiting"]
         /\ UNCHANGED <<packets, error, returned, result>>
    ELSE Resume(c, m)

datagram_received(d) ==
    /\ ~closing
    /\ nDelivered < MaxDatagrams
    /\ nDelivered' = nDelivered + 1
    /\ put_nowait(Dgram(nDelivered + 1, d), "datagram_received")
    /\ UNCHANGED <<error, maxsize, closing, lost, pc, op, result, scope,
                   exitPath, nErrors, returned>>

error_received(e) ==
    /\ ~closing
    /\ nErrors < MaxErrors
    /\ nErrors' = nErrors + 1
    /\ error' = e
    /\ put_nowait(NoneItem, "error_received")
    /\ UNCHANGED <<maxsize, closing, lost, pc, op, result, scope, exitPath,
                   nDelivered, returned>>

\* called back once, some time after the transport was closed
connection_lost ==
    /\ closing
    /\ ~lost
    /\ lost' = TRUE
    /\ put_nowait(NoneItem, "connection_lost")
    /\ UNCHANGED <<error, maxsize, closing, pc, op, result, scope, exitPath,
                   nDelivered, nErrors, returned>>

(***************************************************************************)
(* udp.py: IntellinetUDPClient                                             *)
(***************************************************************************)
\* close(): transport.close()
close ==
    /\ ~closing
    /\ closing' = TRUE
    /\ UNCHANGED <<packets, error, maxsize, lost, pc, op, result, scope,
                   exitPath, nDelivered, nErrors, returned, overflowed>>

\* a task calls _recvfrom()
call_recvfrom(c) ==
    /\ pc[c] = "idle"
    /\ MethodOf(c) = "_recvfrom"
    /\ op' = [op EXCEPT ![c] = "_recvfrom"]
    /\ await_get(c, "_recvfrom")
    /\ UNCHANGED <<maxsize, closing, lost, scope, exitPath, nDelivered,
                   nErrors, overflowed>>

\* a task calls get_voltage(): _sendto(query frame), then _recvfrom()
call_get_voltage(c) ==
    /\ pc[c] = "idle"
    /\ MethodOf(c) = "get_voltage"
    /\ op' = [op EXCEPT ![c] = "get_voltage"]
    /\ IF raise_if_error # "None"
       THEN /\ result' = [result EXCEPT ![c] =
                             Raised(raise_if_error, "_sendto", NoneItem)]
            /\ error' = "None"
            /\ pc' = [pc EXCEPT ![c] = "done"]
            /\ UNCHANGED <<packets, returned>>
       ELSE await_get(c, "get_voltage")
    /\ UNCHANGED <<maxsize, closing, lost, scope, exitPath, nDelivered,
                   nErrors, overflowed>>

\* a task suspended in Queue.get() is resumed with an item
wake(c) ==
    /\ pc[c] = "waiting"
    /\ packets # <<>>
    /\ Resume(c, op[c])
    /\ UNCHANGED <<maxsize, closing, lost, op, scope, exitPath, nDelivered,
                   nErrors, overflowed>>

\* a task suspended in Queue.get() is cancelled
cancel(c) ==
    /\ pc[c] = "waiting"
    /\ pc' = [pc EXCEPT ![c] = "done"]
    /\ result' = [result EXCEPT ![c] = Raised("CancelledError", "cancel", NoneItem)]
    /\ UNCHANGED <<packets, error, maxsize, closing, lost, op, scope, exitPath,
                   nDelivered, nErrors, returned, overflowed>>

\* the caller takes what its call returned, or handles what it raised
take_result(c) ==
    /\ pc[c] = "done"
    /\ pc' = [pc EXCEPT ![c] = "idle"]
    /\ result' = [result EXCEPT ![c] = NoResult]
    /\ op' = [op EXCEPT ![c] = "None"]
    /\ UNCHANGED <<packets, error, maxsize, closing, lost, scope, exitPath,
                   nDelivered, nErrors, returned, overflowed>>

\* an __aexit__ that closes only when the body raised nothing
aexit_only_clean(exc_info) == closing' = (closing \/ exc_info = "None")

\* __aexit__(*exc_info): close(), whatever the scope is left with

aexit(exc_info) == closing' = TRUE

\* the body of "async with" ends without an exception
scope_exit_normal ==
    /\ scope = "entered"
    /\ scope' = "exited"
    /\ exitPath' = "normal"
    /\ aexit("None")
    /\ UNCHANGED <<packets, error, maxsize, lost, pc, op, result, nDelivered,
                   nErrors, returned, overflowed>>

\* an exception a call of task c raised leaves the body of "async with"
scope_exit_raise(c) ==
    /\ scope = "entered"
    /\ pc[c] = "done"
    /\ result[c].kind = "error"
    /\ scope' = "exited"
    /\ exitPath' = result[c].at
    /\ aexit(result[c].exc)
    /\ UNCHANGED <<packets, error, maxsize, lost, pc, op, result, nDelivered,
                   nErrors, returned, overflowed>>

\* connect(): the endpoint is created with its queue and the scope entered
UdpInit ==
    /\ packets = <<>>
    /\ error = "None"
    /\ maxsize \in 0..MaxQueue
    /\ closing = FALSE
    /\ lost = FALSE
    /\ pc = [c \in Callers |-> "idle"]
    /\ op = [c \in Callers |-> "None"]
    /\ result = [c \in Callers |-> NoResult]
    /\ scope = "entered"
    /\ exitPath = "None"
    /\ nDelivered = 0
    /\ nErrors = 0
    /\ returned = <<>>
    /\ overflowed = {}

UdpOff ==
    /\ packets = <<>>
    /\ error = "None"
    /\ maxsize = 0
    /\ closing = FALSE
    /\ lost = FALSE
    /\ pc = [c \in Callers |-> "idle"]
    /\ op = [c \in Callers |-> "None"]
    /\ result = [c \in Callers |-> NoResult]
    /\ scope = "entered"
    /\ exitPath = "None"
    /\ nDelivered = 0
    /\ nErrors = 0
    /\ returned = <<>>
    /\ overflowed = {}

(***************************************************************************)
(* Python's str(), int() and float() on the values the codec handles.      *)
(* Text is a sequence of characters.  A float is the decimal num / 10^scale *)
(* in lowest form (num has no trailing zero unless scale is 0): the floats  *)
(* the device shows have a few decimals, and on those repr() writes exactly *)
(* these digits.                                                           *)
(***************************************************************************)
Digits == <<"0", "1", "2", "3", "4", "5", "6", "7", "8", "9">>
DigitChar(d) == Digits[d + 1]
IsDigit(ch) == \E d \in 0..9 : Digits[d + 1] = ch
DigitVal(ch) == CHOOSE d \in 0..9 : Digits[d + 1] = ch

RECURSIVE Pow10(_)
Pow10(k) == IF k = 0 THEN 1 ELSE 10 * Pow10(k - 1)

RECURSIVE NatStr(_)
NatStr(n) ==
    IF n < 10 THEN <<DigitChar(n)>> ELSE Append(NatStr(n \div 10), DigitChar(n % 10))

\* str(n) for an int
str_int(n) == IF n < 0 THEN <<"-">> \o NatStr(0 - n) ELSE NatStr(n)

RECURSIVE PadZeros(_, _)
PadZeros(t, k) == IF Len(t) >= k THEN t ELSE PadZeros(<<"0">> \o t, k)

\* str(x) for a float: repr() always writes a decimal point
str_float(x) ==
    LET a == IF x.num < 0 THEN 0 - x.num ELSE x.num
        p == Pow10(x.scale)
    IN  (IF x.num < 0 THEN <<"-">> ELSE <<>>)
        \o NatStr(a \div p) \o <<".">>
        \o (IF x.scale = 0 THEN <<"0">> ELSE PadZeros(NatStr(a % p), x.scale))

\* str.strip() of the blanks int() and float() skip
RECURSIVE Strip(_)
Strip(t) ==
    IF t = <<>> THEN t
    ELSE IF t[1] = " " THEN Strip(Tail(t))
    ELSE IF t[Len(t)] = " " THEN Strip(SubSeq(t, 1, Len(t) - 1))
    ELSE t

AllDigits(t) == \A i \in 1..Len(t) : IsDigit(t[i])

RECURSIVE NatVal(_)
NatVal(t) ==
    IF t = <<>> THEN 0 ELSE 10 * NatVal(SubSeq(t, 1, Len(t) - 1)) + DigitVal(t[Len(t)])

Unsigned(t) == IF t # <<>> /\ t[1] \in {"+", "-"} THEN Tail(t) ELSE t
Negative(t) == t # <<>> /\ t[1] = "-"

Ok(v) == [ok |-> TRUE, exc |-> "None", v |-> v]
Fail(e) == [ok |-> FALSE, exc |-> e, v |-> 0]

\* int(text): blanks around, an optional sign, decimal digits
int_of(text) ==
    LET u == Unsigned(Strip(text))
    IN  IF u # <<>> /\ AllDigits(u)
        THEN Ok(IF Negative(Strip(text)) THEN 0 - NatVal(u) ELSE NatVal(u))
        ELSE Fail("ValueError")

RECURSIVE Lowest(_, _)
Lowest(n, k) == IF k > 0 /\ n % 10 = 0 THEN Lowest(n \div 10, k - 1)
                ELSE [num |-> n, scale |-> k]

DotAt(t) == IF \E i \in 1..Len(t) : t[i] = "."
            THEN CHOOSE i \in 1..Len(t) : t[i] = "." /\ \A j \in 1..(i - 1) : t[j] # "."
            ELSE 0

\* float(text): blanks around, an optional sign, digits with at most one
\* decimal point and at least one digit
float_of(text) ==
    LET u == Unsigned(Strip(text))
        d == DotAt(u)
        ip == IF d = 0 THEN u ELSE SubSeq(u, 1, d - 1)
        fp == IF d = 0 THEN <<>> ELSE SubSeq(u, d + 1, Len(u))
        n == NatVal(ip) * Pow10(Len(fp)) + NatVal(fp)
    IN  IF AllDigits(ip) /\ AllDigits(fp) /\ Len(ip) + Len(fp) > 0
        THEN Ok(Lowest(IF Negative(Strip(text)) THEN 0 - n ELSE n, Len(fp)))
        ELSE Fail("ValueError")

(***************************************************************************)
(* utils.py: the markup query primitives.  A form page is the sequence of  *)
(* its elements in document order; an element has an id and a name ("" for *)
(* none), possibly a value attribute, possibly a checked attribute.  A     *)
(* status document is the sequence of the children of its root.            *)
(***************************************************************************)
Input(i, n, v) == [id |-> i, name |-> n, hasValue |-> TRUE, value |-> v, checked |-> FALSE]
NoValue(i, n) == [id |-> i, name |-> n, hasValue |-> FALSE, value |-> <<>>, checked |-> FALSE]
Checkbox(i, n, c) == [id |-> i, name |-> n, hasValue |-> FALSE, value |-> <<>>, checked |-> c]

\* find_input_value_in_xml(et, id): the first value attribute, in document
\* order, of an element whose id or whose name is the one asked for
find_input_value_in_xml(doc, key) ==
    LET hits == {i \in 1..Len(doc) :
                    doc[i].hasValue /\ (doc[i].id = key \/ doc[i].name = key)}
    IN  IF hits = {} THEN Fail("ValueError")
        ELSE Ok(doc[CHOOSE i \in hits : \A j \in hits : i <= j].value)

Child(t, x) == [tag |-> t, hasText |-> TRUE, text |-> x]
EmptyChild(t) == [tag |-> t, hasText |-> FALSE, text |-> <<>>]

\* str(None)
NoneText == <<"N", "o", "n", "e">>

\* extract_text_from_child(e, child_name): str(child.text) of the first child
\* with that tag; the text of an element without text is None
extract_text_from_child(doc, child_name) ==
    LET hits == {i \in 1..Len(doc) : doc[i].tag = child_name}
    IN  IF hits = {} THEN Fail("ValueError")
        ELSE LET child == doc[CHOOSE i \in hits : \A j \in hits : i <= j]
             IN  Ok(IF child.hasText THEN child.text ELSE NoneText)

(***************************************************************************)
(* types.py: ThresholdsConfig                                              *)
(***************************************************************************)
RAW_FIELD_NAMES == <<"wrncur", "ovrcur", "wrnvol", "ovrvol", "wrntp1", "wrntp2", "wrnhum">>

\* the first failure among conversions made in this order, or no failure
FirstFailure(rs) ==
    IF \A i \in 1..Len(rs) : rs[i].ok THEN Ok(0)
    ELSE rs[CHOOSE i \in 1..Len(rs) : ~rs[i].ok /\ \A j \in 1..(i - 1) : rs[j].ok]

\* float(find_input_value_in_xml(e, key)) and int(...)
float_field(doc, key) ==
    LET r == find_input_value_in_xml(doc, key)
    IN  IF r.ok THEN float_of(r.v) ELSE r
int_field(doc, key) ==
    LET r == find_input_value_in_xml(doc, key)
    IN  IF r.ok THEN int_of(r.v) ELSE r

ThresholdsConfig_from_xml(doc) ==
    LET f1 == float_field(doc, "wrncur")
        f2 == float_field(doc, "ovrcur")
        f3 == int_field(doc, "wrnvol")
        f4 == int_field(doc, "ovrvol")
        f5 == int_field(doc, "wrntp1")
        f6 == int_field(doc, "wrntp2")
        f7 == int_field(doc, "wrnhum")
        bad == FirstFailure(<<f1, f2, f3, f4, f5, f6, f7>>)
    IN  IF ~bad.ok THEN bad
        ELSE Ok([warning_value_amps |-> f1.v,
                 overload_value_amps |-> f2.v,
                 warning_value_volts |-> f3.v,
                 overload_value_volts |-> f4.v,
                 warning_value_temp_under_celcius |-> f5.v,
                 warning_value_temp_over_celcius |-> f6.v,
                 warning_value_humidity_percent |-> f7.v])

ThresholdsConfig_to_dict(self) ==
    "wrncur" :> str_float(self.warning_value_amps)
    @@ "ovrcur" :> str_float(self.overload_value_amps)
    @@ "wrnvol" :> str_int(self.warning_value_volts)
    @@ "ovrvol" :> str_int(self.overload_value_volts)
    @@ "wrntp1" :> str_int(self.warning_value_temp_under_celcius)
    @@ "wrntp2" :> str_int(self.warning_value_temp_over_celcius)
    @@ "wrnhum" :> str_int(self.warning_value_humidity_percent)

(***************************************************************************)
(* types.py: NetworkConfiguration                                          *)
(***************************************************************************)
NetworkFieldNames == <<"host", "ip", "mask", "gate", "dns1", "dns2">>

NetworkConfiguration_from_xml(doc) ==
    LET boxes == {i \in 1..Len(doc) : doc[i].id = "dhcp"}
        f1 == find_input_value_in_xml(doc, "host")
        f2 == find_input_value_in_xml(doc, "ip")
        f3 == find_input_value_in_xml(doc, "mask")
        f4 == find_input_value_in_xml(doc, "gate")
        f5 == find_input_value_in_xml(doc, "dns1")
        f6 == find_input_value_in_xml(doc, "dns2")
        bad == FirstFailure(<<f1, f2, f3, f4, f5, f6>>)
    IN  IF boxes = {} THEN Fail("IndexError")
        ELSE IF ~bad.ok THEN bad
        ELSE Ok([hostname |-> f1.v,
                 ip_address |-> f2.v,
                 subnet_mask |-> f3.v,
                 gateway |-> f4.v,
                 enable_dhcp |-> doc[CHOOSE i \in boxes : \A j \in boxes : i <= j].checked,
                 primary_dns_ip |-> f5.v,
                 secondary_dns_ip |-> f6.v])

\* a to_dict that writes the flag either way
NetworkConfiguration_to_dict_always(self) ==
    "host" :> self.hostname
    @@ "ip" :> self.ip_address
    @@ "mask" :> self.subnet_mask
    @@ "gate" :> self.gateway
    @@ "dns1" :> self.primary_dns_ip
    @@ "dns2" :> self.secondary_dns_ip
    @@ "dhcp" :> (IF self.enable_dhcp THEN <<"o", "n">> ELSE <<"o", "f", "f">>)

NetworkConfiguration_to_dict(self) ==
    LET data == "host" :> self.hostname
                @@ "ip" :> self.ip_address
                @@ "mask" :> self.subnet_mask
                @@ "gate" :> self.gateway
                @@ "dns1" :> self.primary_dns_ip
                @@ "dns2" :> self.secondary_dns_ip
    IN  IF self.enable_dhcp THEN data @@ "dhcp" :> <<"o", "n">> ELSE data

(***************************************************************************)
(* types.py: AllOutletsConfig.  The outlet page is the sequence of its     *)
(* table rows in document order, a row the sequence of the input elements  *)
(* in its cells.                                                           *)
(***************************************************************************)
NumOutlets == 8
OutletIndex == 0..(NumOutlets - 1)

IndividualOutletConfig(n, on, off) ==
    [name |-> n, turn_on_delay |-> on, turn_off_delay |-> off]

HasValue(el) == el.hasValue

\* ".//tr[td/input/@value]": the rows with at least one input carrying a value
QualifyingRow(row) == \E i \in 1..Len(row) : row[i].hasValue
xpath_input_fields(rows) == SelectSeq(rows, QualifyingRow)

\* ".//td/input/@value" within a row, in document order
xpath_input_field_values(row) ==
    LET ins == SelectSeq(row, HasValue)
    IN  [i \in 1..Len(ins) |-> ins[i].value]

\* one turn of the loop: IndividualOutletConfig(values[0], int(values[1]),
\* int(values[2]))
outlet_from_row(row) ==
    LET values == xpath_input_field_values(row)
    IN  IF Len(values) < 1 THEN Fail("IndexError")
        ELSE IF Len(values) < 2 THEN Fail("IndexError")
        ELSE IF ~int_of(values[2]).ok THEN Fail("ValueError")
        ELSE IF Len(values) < 3 THEN Fail("IndexError")
        ELSE IF ~int_of(values[3]).ok THEN Fail("ValueError")
        ELSE Ok(IndividualOutletConfig(values[1], int_of(values[2]).v, int_of(values[3]).v))

\* the number that ends an id such as "otlt3", or -1
SuffixOf(el) ==
    LET ks == {k \in 0..9 : \E pre \in {"otlt", "ondly", "ofdly"} :
                                el.id = pre \o ToString(k)}
    IN  IF ks = {} THEN -1 ELSE CHOOSE k \in ks : TRUE

\* a from_xml that files each row under the suffix of its first input's id
AllOutletsConfig_from_xml_by_id(rows) ==
    LET found == xpath_input_fields(rows)
        made == [i \in 1..Len(found) |-> outlet_from_row(found[i])]
        bad == FirstFailure(made)
        keys == {SuffixOf(found[i][1]) : i \in 1..Len(found)}
    IN  IF ~bad.ok THEN bad
        ELSE IF keys # OutletIndex THEN Fail("TypeError")
        ELSE Ok([k \in OutletIndex |->
                    made[CHOOSE i \in 1..Len(found) :
                            /\ SuffixOf(found[i][1]) = k
                            /\ \A j \in 1..Len(found) :
                                   SuffixOf(found[j][1]) = k => j <= i].v])

\* config["outlet{idx}"] for idx, row in enumerate(rows); cls(**config) raises
\* TypeError unless the keys are exactly outlet0..outlet7
AllOutletsConfig_from_xml(rows) ==
    LET found == xpath_input_fields(rows)
        made == [i \in 1..Len(found) |-> outlet_from_row(found[i])]
        bad == FirstFailure(made)
    IN  IF ~bad.ok THEN bad
        ELSE IF {idx - 1 : idx \in 1..Len(found)} # OutletIndex THEN Fail("TypeError")
        ELSE Ok([k \in OutletIndex |-> made[k + 1].v])

(***************************************************************************)
(* api.py: IPU.set_config_pdu.  The values are posted as they are and the  *)
(* form encoding writes them with str().                                   *)
(***************************************************************************)
translation_table ==
    "turn_on_delay" :> "ondly" @@ "turn_off_delay" :> "ofdly" @@ "name" :> "otlt"

OutletFieldPairs == {<<f, n>> : f \in DOMAIN translation_table, n \in OutletIndex}

\* new_key = f"{translation_table[_k]}{otl_nr}"
new_key(k, otl_nr) == translation_table[k] \o ToString(otl_nr)

\* a set_config_pdu that numbers the outlets from 1
set_config_pdu_from_one(outlet_configs) ==
    [key \in {new_key(q[1], q[2] + 1) : q \in OutletFieldPairs} |->
        LET q == CHOOSE r \in OutletFieldPairs : new_key(r[1], r[2] + 1) = key
        IN  outlet_configs[q[2]][q[1]]]

\* the settings set_config_pdu posts
set_config_pdu(outlet_configs) ==
    [key \in {new_key(q[1], q[2]) : q \in OutletFieldPairs} |->
        LET q == CHOOSE r \in OutletFieldPairs : new_key(r[1], r[2]) = key
        IN  outlet_configs[q[2]][q[1]]]

(***************************************************************************)
(* types.py: PDUStatus                                                     *)
(***************************************************************************)
\* OutletState(text)
OutletState(text) ==
    IF text = <<"o", "n">> THEN Ok("ON")
    ELSE IF text = <<"o", "f", "f">> THEN Ok("OFF")
    ELSE Fail("ValueError")

\* a UserVerifyResult with the values of its last two members exchanged
UserVerifyResult_swapped(n) ==
    IF n = 0 THEN Ok("NA")
    ELSE IF n = 2 THEN Ok("CREDENTIALS_CHANGED")
    ELSE IF n = 1 THEN Ok("CREDENTIALS_ERRORED")
    ELSE Fail("ValueError")

\* UserVerifyResult(n)
UserVerifyResult(n) ==
    IF n = 0 THEN Ok("NA")
    ELSE IF n = 1 THEN Ok("CREDENTIALS_CHANGED")
    ELSE IF n = 2 THEN Ok("CREDENTIALS_ERRORED")
    ELSE Fail("ValueError")

\* float(extract_text_from_child(e, tag)), int(...), OutletState(...)
float_child(doc, tag) ==
    LET r == extract_text_from_child(doc, tag)
    IN  IF r.ok THEN float_of(r.v) ELSE r
int_child(doc, tag) ==
    LET r == extract_text_from_child(doc, tag)
    IN  IF r.ok THEN int_of(r.v) ELSE r
outlet_state_child(doc, tag) ==
    LET r == extract_text_from_child(doc, tag)
    IN  IF r.ok THEN OutletState(r.v) ELSE r

\* "outletStat{}".format(i)
OutletStatTag(i) == "outletStat" \o ToString(i)

user_verify_of(text) ==
    LET n == int_of(text)
    IN  IF n.ok THEN UserVerifyResult(n.v) ELSE n
user_verify_child(doc, tag) ==
    LET r == extract_text_from_child(doc, tag)
    IN  IF r.ok THEN user_verify_of(r.v) ELSE r

PDUStatus_from_xml(doc) ==
    LET cur == float_child(doc, "cur0")
        temp == int_child(doc, "tempCBan")
        hum == int_child(doc, "humBan")
        stat == extract_text_from_child(doc, "stat0")
        outs == [k \in 1..NumOutlets |-> outlet_state_child(doc, OutletStatTag(k - 1))]
        uvr == user_verify_child(doc, "userVerifyRes")
        bad == FirstFailure(<<cur, temp, hum, stat>> \o outs \o <<uvr>>)
    IN  IF ~bad.ok THEN bad
        ELSE Ok([current_amps |-> cur.v,
                 degree_celcius |-> temp.v,
                 humidity_percent |-> hum.v,
                 status |-> stat.v,
                 outlet_states |-> [k \in 1..NumOutlets |-> outs[k].v],
                 user_verify_result |-> uvr.v])

(***************************************************************************)
(* The device's pages, as the specification describes them (sections 4.2   *)
(* and 8): a form page shows each field of the mapping as an input whose   *)
(* id or whose name is the field code, the DHCP checkbox is checked when   *)
(* the mapping has the key, and the outlet page has one table row per      *)
(* outlet, in index order, with the inputs for name, turn-on delay and     *)
(* turn-off delay, under a heading row.                                    *)
(***************************************************************************)
FieldInput(fields, key, byId) ==
    IF key \in DOMAIN fields
    THEN Input(IF byId THEN key ELSE "", IF byId THEN "" ELSE key, fields[key])
    ELSE NoValue(IF byId THEN key ELSE "", IF byId THEN "" ELSE key)

render_form(names, fields, byId) ==
    [i \in 1..Len(names) |-> FieldInput(fields, names[i], byId)]

render_network_form(fields, byId) ==
    render_form(NetworkFieldNames, fields, byId)
    \o <<Checkbox("dhcp", "dhcp", "dhcp" \in DOMAIN fields)>>

OutletInput(settings, key, asInt) ==
    IF key \in DOMAIN settings
    THEN Input(key, key, IF asInt THEN str_int(settings[key]) ELSE settings[key])
    ELSE NoValue(key, key)

HeadingRow == <<>>

render_outlet_rows(settings) ==
    <<HeadingRow>> \o
    [r \in 1..NumOutlets |->
        << OutletInput(settings, "otlt" \o ToString(r - 1), FALSE),
           OutletInput(settings, "ondly" \o ToString(r - 1), TRUE),
           OutletInput(settings, "ofdly" \o ToString(r - 1), TRUE) >>]

(***************************************************************************)
(* The records, pages and page changes the codec is run on                 *)
(***************************************************************************)
Amps == {[num |-> 5, scale |-> 1], [num |-> 16, scale |-> 0]}

ThresholdsValues ==
    [warning_value_amps : Amps,
     overload_value_amps : {[num |-> 16, scale |-> 0], [num |-> 1205, scale |-> 2]},
     warning_value_volts : {0, 207},
     overload_value_volts : {253},
     warning_value_temp_under_celcius : {-5, 10},
     warning_value_temp_over_celcius : {40},
     warning_value_humidity_percent : {80, 100}]

NetworkValues ==
    [hostname : {<<"p", "d", "u">>, <<>>},
     ip_address : {<<"1", "0", ".", "0", ".", "0", ".", "7">>},
     subnet_mask : {<<"2", "5", "5", ".", "0">>, <<"/", "8">>},
     gateway : {<<"1", "0", ".", "0", ".", "0", ".", "1">>},
     enable_dhcp : BOOLEAN,
     primary_dns_ip : {<<"8", ".", "8">>, <<>>},
     secondary_dns_ip : {<<"9", ".", "9">>}]

CommonOutlet == IndividualOutletConfig(<<"f", "a", "n">>, 0, 5)
OtherOutlets == {IndividualOutletConfig(<<>>, 12, 0)}

\* the banks in which at most MaxChanged outlets differ from the common one
OutletBanks ==
    {b \in [OutletIndex -> {CommonOutlet} \cup OtherOutlets] :
        Cardinality({i \in OutletIndex : b[i] # CommonOutlet}) <= MaxChanged}

\* rows a page may hold besides the outlets' rows: a row without inputs, a
\* row with only a button, a row that repeats outlet 0's ids, a row whose
\* delay is not a number
ExtraRows ==
    { <<NoValue("", "")>>,
      <<Input("", "submit", <<"O", "K">>)>>,
      <<Input("otlt0", "otlt0", <<"x">>), Input("ondly0", "ondly0", <<"7">>),
        Input("ofdly0", "ofdly0", <<"9">>), Input("", "", <<"1">>)>>,
      <<Input("otlt1", "otlt1", <<"y">>), Input("ondly1", "ondly1", <<"s">>),
        Input("ofdly1", "ofdly1", <<"2">>)>> }

InsertAt(q, i, x) == SubSeq(q, 1, i - 1) \o <<x>> \o SubSeq(q, i, Len(q))
RemoveAt(q, i) == SubSeq(q, 1, i - 1) \o SubSeq(q, i + 1, Len(q))
SwapAt(q, i, j) == [q EXCEPT ![i] = q[j], ![j] = q[i]]

\* status.xml as the device sends it
StatusTags ==
    <<"cur0", "tempCBan", "humBan", "stat0">>
    \o [k \in 1..NumOutlets |-> OutletStatTag(k - 1)]
    \o <<"userVerifyRes">>

StatusDocs ==
    { << Child("cur0", cur), Child("tempCBan", <<"2", "6">>),
         Child("humBan", <<"2", "7">>), Child("stat0", <<"n", "o", "r", "m", "a", "l">>) >>
      \o [k \in 1..NumOutlets |->
             Child(OutletStatTag(k - 1), IF k = off THEN <<"o", "f", "f">> ELSE <<"o", "n">>)]
      \o << Child("userVerifyRes", <<DigitChar(uvr)>>) >>
      : cur \in {<<"0", ".", "5">>, <<"1", "2">>}, off \in {3, 8}, uvr \in 0..2 }

\* texts a child may carry instead of its own
OddTexts == {<<"x">>, <<"3">>}

(***************************************************************************)
(* The codec at work                                                       *)
(***************************************************************************)
CodecInit ==
    /\ ckind = "None"
    /\ cstep = "start"
    /\ cvalue = "None"
    /\ cfields = "None"
    /\ cdoc = <<>>
    /\ cedits = 0
    /\ cout = Fail("None")

Choose(kind, v) ==
    /\ cstep = "start"
    /\ ckind' = kind
    /\ cstep' = "value"
    /\ cvalue' = v
    /\ UNCHANGED <<cfields, cdoc, cedits, cout>>

Encode(kind, fields) ==
    /\ cstep = "value"
    /\ ckind = kind
    /\ cstep' = "encoded"
    /\ cfields' = fields
    /\ UNCHANGED <<ckind, cvalue, cdoc, cedits, cout>>

Render(kind, doc) ==
    /\ cstep = "encoded"
    /\ ckind = kind
    /\ cstep' = "rendered"
    /\ cdoc' = doc
    /\ UNCHANGED <<ckind, cvalue, cfields, cedits, cout>>

Decode(kind, r) ==
    /\ cstep = "rendered"
    /\ ckind = kind
    /\ cstep' = "decoded"
    /\ cout' = r
    /\ UNCHANGED <<ckind, cvalue, cfields, cdoc, cedits>>

Edit(kind, doc) ==
    /\ cstep = "rendered"
    /\ ckind = kind
    /\ cedits < MaxEdits
    /\ cedits' = cedits + 1
    /\ cdoc' = doc
    /\ UNCHANGED <<ckind, cstep, cvalue, cfields, cout>>

\* set_config_threshold / get_config_threshold
ChooseThresholds(v) == Choose("thresholds", v)
EncodeThresholds == Encode("thresholds", ThresholdsConfig_to_dict(cvalue))
RenderThresholds(byId) == Render("thresholds", render_form(RAW_FIELD_NAMES, cfields, byId))
DecodeThresholds == Decode("thresholds", ThresholdsConfig_from_xml(cdoc))

\* NetworkConfiguration.to_dict / from_xml
ChooseNetwork(v) == Choose("network", v)
EncodeNetwork == Encode("network", NetworkConfiguration_to_dict(cvalue))
RenderNetwork(byId) == Render("network", render_network_form(cfields, byId))
DecodeNetwork == Decode("network", NetworkConfiguration_from_xml(cdoc))

\* set_config_pdu / get_config_pdu
ChooseOutlets(v) == Choose("outlets", v)
EncodeOutlets == Encode("outlets", set_config_pdu(cvalue))
RenderOutlets == Render("outlets", render_outlet_rows(cfields))
InsertRow(i, row) == Edit("outlets", InsertAt(cdoc, i, row))
DeleteRow(i) == Edit("outlets", RemoveAt(cdoc, i))
SwapRows(i) == Edit("outlets", SwapAt(cdoc, i, i + 1))
DecodeOutlets == Decode("outlets", AllOutletsConfig_from_xml(cdoc))

\* get_status
ReceiveStatus(doc) ==
    /\ cstep = "start"
    /\ ckind' = "status"
    /\ cstep' = "rendered"
    /\ cdoc' = doc
    /\ UNCHANGED <<cvalue, cfields, cedits, cout>>
DropChild(i) == Edit("status", RemoveAt(cdoc, i))
ClearChild(i) == Edit("status", [cdoc EXCEPT ![i] = EmptyChild(cdoc[i].tag)])
SetChildText(i, x) == Edit("status", [cdoc EXCEPT ![i] = Child(cdoc[i].tag, x)])
DecodeStatus == Decode("status", PDUStatus_from_xml(cdoc))

(***************************************************************************)
(* api.py: IPU and its credentials.  A (username, password) pair is a      *)
(* tuple, no credentials the empty tuple.                                  *)
(***************************************************************************)
DEFAULT_CREDS == <<"tutor", "kalman">>

CredPool == {DEFAULT_CREDS, <<"admin", "admin">>, <<"ops", "s3cret">>}

\* IPU.__init__: self.credentials = auth or self.DEFAULT_CREDS
IPU_init(auth) == IF auth = <<>> THEN DEFAULT_CREDS ELSE auth

FacadeInit ==
    /\ \E auth \in CredPool \cup {<<>>} : credentials = IPU_init(auth)
    /\ devCreds \in CredPool
    /\ devVerify = 0
    /\ fpc = "idle"
    /\ pendingNew = <<>>
    /\ oldCreds = <<>>
    /\ seenCode = -1
    /\ fresult = "None"
    /\ lastAuth = <<>>

FacadeOff ==
    /\ credentials = DEFAULT_CREDS
    /\ devCreds = DEFAULT_CREDS
    /\ devVerify = 0
    /\ fpc = "idle"
    /\ pendingNew = <<>>
    /\ oldCreds = <<>>
    /\ seenCode = -1
    /\ fresult = "None"
    /\ lastAuth = <<>>

\* get_status(): a request that carries the stored credentials
get_status ==
    /\ fpc \in {"idle", "finished"}
    /\ fpc' = "idle"
    /\ lastAuth' = credentials
    /\ UNCHANGED <<credentials, devCreds, devVerify, pendingNew, oldCreds,
                   seenCode, fresult>>

\* changeCredentials(new), first half: POST the old and the new credentials
\* to the users endpoint.  The device takes the new ones, or refuses; it
\* refuses a request whose credentials are not its own.
change_credentials_post(new, accepted) ==
    /\ fpc \in {"idle", "finished"}
    /\ accepted => credentials = devCreds
    /\ fpc' = "posted"
    /\ pendingNew' = new
    /\ oldCreds' = credentials
    /\ lastAuth' = credentials
    /\ seenCode' = -1
    /\ fresult' = "None"
    /\ devCreds' = IF accepted THEN new ELSE devCreds
    /\ devVerify' = IF accepted THEN 1 ELSE 2
    /\ UNCHANGED credentials

\* changeCredentials(new), second half: getStatus(), and the stored
\* credentials become the new ones only if it reports CREDENTIALS_CHANGED
change_credentials_verify ==
    /\ fpc = "posted"
    /\ fpc' = "finished"
    /\ seenCode' = devVerify
    /\ LET seen == user_verify_of(str_int(devVerify))
       IN  IF seen.ok /\ seen.v = "CREDENTIALS_CHANGED"
           THEN /\ credentials' = pendingNew
                /\ fresult' = "ok"
           ELSE /\ credentials' = credentials
                /\ fresult' = "CredentialVerificationError"
    /\ UNCHANGED <<devCreds, devVerify, pendingNew, oldCreds, lastAuth>>

\* the device forgets the outcome of the last credential change
device_clears_verify ==
    /\ fpc \in {"idle", "posted"}
    /\ devVerify # 0
    /\ devVerify' = 0
    /\ UNCHANGED <<credentials, devCreds, fpc, pendingNew, oldCreds, seenCode,
                   fresult, lastAuth>>

(***************************************************************************)
(* with_checksum on its own: a message is built byte by byte and framed    *)
(***************************************************************************)
SumInit ==
    /\ msg = <<>>
    /\ framed = <<>>

AppendByte(b) ==
    /\ framed = <<>>
    /\ Len(msg) < MaxMsgLen
    /\ msg' = Append(msg, b)
    /\ UNCHANGED framed

Frame ==
    /\ framed = <<>>
    /\ framed' = with_checksum(msg)
    /\ UNCHANGED msg

(***************************************************************************)
(* Specifications                                                          *)
(***************************************************************************)
Init == UdpInit /\ SumInit /\ CodecInit /\ FacadeOff
Next ==
    \/ \E d \in DatagramPool : datagram_received(d) /\ UNCHANGED <<sumVars, codecVars, facadeVars>>
    \/ \E e \in TransportErrors : error_received(e) /\ UNCHANGED <<sumVars, codecVars, facadeVars>>
    \/ connection_lost /\ UNCHANGED <<sumVars, codecVars, facadeVars>>
    \/ close /\ UNCHANGED <<sumVars, codecVars, facadeVars>>
    \/ \E c \in Callers : call_recvfrom(c) /\ UNCHANGED <<sumVars, codecVars, facadeVars>>
    \/ \E c \in Callers : call_get_voltage(c) /\ UNCHANGED <<sumVars, codecVars, facadeVars>>
    \/ \E c \in Callers : wake(c) /\ UNCHANGED <<sumVars, codecVars, facadeVars>>
    \/ \E c \in Callers : cancel(c) /\ UNCHANGED <<sumVars, codecVars, facadeVars>>
    \/ \E c \in Callers : take_result(c) /\ UNCHANGED <<sumVars, codecVars, facadeVars>>
    \/ scope_exit_normal /\ UNCHANGED <<sumVars, codecVars, facadeVars>>
    \/ \E c \in Callers : scope_exit_raise(c) /\ UNCHANGED <<sumVars, codecVars, facadeVars>>
Spec == Init /\ [][Next]_vars

SumSpecInit == UdpOff /\ SumInit /\ CodecInit /\ FacadeOff
SumSpecNext ==
    \/ \E b \in ByteSet : AppendByte(b) /\ UNCHANGED <<udpVars, codecVars, facadeVars>>
    \/ Frame /\ UNCHANGED <<udpVars, codecVars, facadeVars>>
SpecChecksum == SumSpecInit /\ [][SumSpecNext]_vars

CodecSpecInit == UdpOff /\ SumInit /\ CodecInit /\ FacadeOff
CodecSpecNext ==
    \/ \E v \in ThresholdsValues : ChooseThresholds(v) /\ UNCHANGED <<udpVars, sumVars, facadeVars>>
    \/ EncodeThresholds /\ UNCHANGED <<udpVars, sumVars, facadeVars>>
    \/ \E byId \in BOOLEAN : RenderThresholds(byId) /\ UNCHANGED <<udpVars, sumVars, facadeVars>>
    \/ DecodeThresholds /\ UNCHANGED <<udpVars, sumVars, facadeVars>>
    \/ \E v \in NetworkValues : ChooseNetwork(v) /\ UNCHANGED <<udpVars, sumVars, facadeVars>>
    \/ EncodeNetwork /\ UNCHANGED <<udpVars, sumVars, facadeVars>>
    \/ \E byId \in BOOLEAN : RenderNetwork(byId) /\ UNCHANGED <<udpVars, sumVars, facadeVars>>
    \/ DecodeNetwork /\ UNCHANGED <<udpVars, sumVars, facadeVars>>
    \/ \E v \in OutletBanks : ChooseOutlets(v) /\ UNCHANGED <<udpVars, sumVars, facadeVars>>
    \/ EncodeOutlets /\ UNCHANGED <<udpVars, sumVars, facadeVars>>
    \/ RenderOutlets /\ UNCHANGED <<udpVars, sumVars, facadeVars>>
    \/ \E i \in 1..(Len(cdoc) + 1), row \in ExtraRows :
           InsertRow(i, row) /\ UNCHANGED <<udpVars, sumVars, facadeVars>>
    \/ \E i \in 1..Len(cdoc) : DeleteRow(i) /\ UNCHANGED <<udpVars, sumVars, facadeVars>>
    \/ \E i \in 1..(Len(cdoc) - 1) : SwapRows(i) /\ UNCHANGED <<udpVars, sumVars, facadeVars>>
    \/ DecodeOutlets /\ UNCHANGED <<udpVars, sumVars, facadeVars>>
    \/ \E doc \in StatusDocs : ReceiveStatus(doc) /\ UNCHANGED <<udpVars, sumVars, facadeVars>>
    \/ \E i \in 1..Len(cdoc) : DropChild(i) /\ UNCHANGED <<udpVars, sumVars, facadeVars>>
    \/ \E i \in 1..Len(cdoc) : ClearChild(i) /\ UNCHANGED <<udpVars, sumVars, facadeVars>>
    \/ \E i \in 1..Len(cdoc), x \in OddTexts :
           SetChildText(i, x) /\ UNCHANGED <<udpVars, sumVars, facadeVars>>
    \/ DecodeStatus /\ UNCHANGED <<udpVars, sumVars, facadeVars>>
SpecCodec == CodecSpecInit /\ [][CodecSpecNext]_vars

FacadeSpecInit == UdpOff /\ SumInit /\ CodecInit /\ FacadeInit
FacadeSpecNext ==
    \/ get_status /\ UNCHANGED <<udpVars, sumVars, codecVars>>
    \/ \E new \in CredPool, accepted \in BOOLEAN :
           change_credentials_post(new, accepted) /\ UNCHANGED <<udpVars, sumVars, codecVars>>
    \/ change_credentials_verify /\ UNCHANGED <<udpVars, sumVars, codecVars>>
    \/ device_clears_verify /\ UNCHANGED <<udpVars, sumVars, codecVars>>
SpecFacade == FacadeSpecInit /\ [][FacadeSpecNext]_vars

(***************************************************************************)
(* Claims about the datagram client                                        *)
(***************************************************************************)
\* the three conditions a reply must meet
ValidReply(data) ==
    /\ Len(data) = 13
    /\ SubSeq(data, 1, 4) = <<167, 66, 6, 8>>
    /\ data[13] = Last(with_checksum(SubSeq(data, 1, 12)))

\* What the three assertions of get_voltage guarantee, with the trailing byte
\* compared to what with_checksum computes: a value is returned only for a
\* dequeued datagram that passes them, and it is byte 4 of that datagram.
VoltageOnlyFromAssertedReply ==
    \A c \in Callers :
        (pc[c] = "done" /\ op[c] = "get_voltage") =>
            LET r == result[c]
            IN  /\ r.kind \in {"value", "error"}
                /\ r.kind = "value" =>
                       /\ r.id # 0
                       /\ ValidReply(r.data)
                       /\ r.value = r.data[5]
                /\ (r.id # 0 /\ ~ValidReply(r.data)) => r.kind = "error"
                /\ (r.id # 0 /\ Len(r.data) = 11 /\ r.at = "validation") =>
                       r.exc = "AssertionError"

VoltageReturned ==
    \E c \in Callers :
        /\ pc[c] = "done" /\ op[c] = "get_voltage"
        /\ result[c].kind = "value" /\ result[c].value = 230
        /\ \E k \in 1..Len(returned) : returned[k] = result[c].id

\* the reply the protocol describes: the trailing byte is the ones'-complement
\* sum of the 12 bytes before it
WellFormedReply(data) ==
    /\ Len(data) = 13
    /\ SubSeq(data, 1, 4) = <<167, 66, 6, 8>>
    /\ data[13] = ref_checksum_of(SubSeq(data, 1, 12))

\* C1: get_voltage returns a value only for a dequeued datagram that is 13
\* bytes long, starts with A7 42 06 08 and ends with the checksum (the
\* ones'-complement sum) of its first 12 bytes, and the value is then byte 4
\* of it (0-based); every other dequeued datagram is refused and yields no
\* value, and a well-formed reply is not refused.
C1_VoltageOnlyFromValidatedReply ==
    \A c \in Callers :
        (pc[c] = "done" /\ op[c] = "get_voltage" /\ result[c].id # 0) =>
            LET r == result[c]
            IN  /\ r.kind = "value" =>
                       /\ WellFormedReply(r.data)
                       /\ r.value = r.data[5]
                /\ (r.at = "validation") => ~WellFormedReply(r.data)

\* C2: once connection_lost has been called back no callback can add to the
\* queue any more, so a caller suspended in Queue.get() can only be resumed
\* by an item that is already queued: every caller that is blocked then must
\* find the queue non-empty, or it stays blocked forever.
C2_NoReceiverLeftBlocked ==
    (lost /\ \E c \in Callers : pc[c] = "waiting") => packets # <<>>

\* C3: once the async-with scope of the client has been left, on any exit
\* path, the transport is closed.
C3_ScopeExitClosesTransport ==
    scope = "exited" =>
        /\ closing
        /\ exitPath \in {"normal", "_sendto", "_recvfrom", "validation", "cancel"}

C3_Witness ==
    /\ scope = "exited"
    /\ exitPath = "validation"
    /\ closing

\* C10: the datagrams _recvfrom has returned are in the order they were
\* received, none twice, and every datagram datagram_received has put on the
\* queue is either still queued or has been returned by _recvfrom (stated
\* here for the runs in which put_nowait never met a full queue).
C10_FifoLossless ==
    overflowed = {} =>
        /\ \A j, k \in 1..Len(returned) : j < k => returned[j] < returned[k]
        /\ \A i \in 1..nDelivered :
               \/ \E k \in 1..Len(packets) : packets[k].id = i
               \/ \E k \in 1..Len(returned) : returned[k] = i

\* The capacity alone: Queue(maxsize) never holds more than maxsize items.
QueueWithinCapacity ==
    maxsize > 0 => Len(packets) <= maxsize

\* C11: with a capacity N > 0 the queue never holds more than N items, and a
\* producer callback (datagram_received, connection_lost, error_received)
\* that finds the queue full is held back: its put never fails and the item
\* it delivers is never lost.
C11_BoundedWithBackpressure ==
    /\ QueueWithinCapacity
    /\ overflowed = {}

\* C12: the datagram a get_voltage call takes its reading from arrived after
\* the call sent its query frame. A call that finds the queue empty suspends
\* and can only be handed a datagram queued later; so the claim is that no
\* call completes with a reading in the very step it is made, taking a
\* datagram that was on the queue before the call.
C12_ReplyArrivedAfterQuery ==
    [][\A c \in Callers :
           (/\ pc[c] = "idle"
            /\ pc'[c] = "done"
            /\ op'[c] = "get_voltage"
            /\ result'[c].kind = "value") =>
               \A k \in 1..Len(packets) : packets[k].id # result'[c].id]_vars

(***************************************************************************)
(* Claims about the checksum                                               *)
(***************************************************************************)
\* C9: with_checksum appends exactly one byte, and that byte is the 8-bit
\* ones'-complement sum (end-around carry) of the message bytes.
C9_OnesComplementSum ==
    framed # <<>> =>
        /\ Len(framed) = Len(msg) + 1
        /\ Front(framed) = msg
        /\ Last(framed) = ref_checksum_of(msg)

(***************************************************************************)
(* Claims about the codec                                                  *)
(***************************************************************************)
\* C4: a ThresholdsConfig, NetworkConfiguration or AllOutletsConfig that is
\* encoded, shown by the device and decoded again comes back equal, field
\* for field; and the settings of outlet i are posted under the suffix i,
\* the index from_xml gives the i-th row.
C4_RoundTrip ==
    (cstep = "decoded" /\ ckind \in {"thresholds", "network", "outlets"} /\ cedits = 0) =>
        /\ cout.ok
        /\ cout.v = cvalue
        /\ ckind = "outlets" =>
               \A i \in 0..7 :
                   /\ cfields["otlt" \o ToString(i)] = cvalue[i].name
                   /\ cfields["ondly" \o ToString(i)] = cvalue[i].turn_on_delay
                   /\ cfields["ofdly" \o ToString(i)] = cvalue[i].turn_off_delay
                   /\ cout.v[i].name = cfields["otlt" \o ToString(i)]

C4_Witness ==
    /\ cstep = "decoded" /\ ckind = "outlets" /\ cedits = 0
    /\ cout.ok
    /\ cout.v[6] # cout.v[0]
    /\ cout.v[6] = cvalue[6]

\* the rows of an outlet page that hold an input with a value, and the
\* values of such a row
RowsWithValues(doc) ==
    SelectSeq(doc, LAMBDA row : \E i \in 1..Len(row) : row[i].hasValue)
ValuesIn(row) ==
    LET ins == SelectSeq(row, LAMBDA el : el.hasValue)
    IN  [i \in 1..Len(ins) |-> ins[i].value]
RowReadable(row) ==
    /\ Len(ValuesIn(row)) >= 3
    /\ int_of(ValuesIn(row)[2]).ok
    /\ int_of(ValuesIn(row)[3]).ok
OutletOfRow(row) ==
    [name |-> ValuesIn(row)[1],
     turn_on_delay |-> int_of(ValuesIn(row)[2]).v,
     turn_off_delay |-> int_of(ValuesIn(row)[3]).v]
\* the 0-based place of row a of the page among the rows with values
PlaceOf(doc, a) == Len(RowsWithValues(SubSeq(doc, 1, a))) - 1

\* C5: with exactly 8 rows that hold a value, outlet i is made of the first
\* three values of the i-th such row, whatever ids the inputs carry, so that
\* exchanging two rows exchanges the two outlets; with fewer or more such
\* rows from_xml raises and returns no record.
C5_PositionalExactlyEight ==
    (ckind = "outlets" /\ cstep = "decoded") =>
        LET q == RowsWithValues(cdoc)
            readable == \A k \in 1..Len(q) : RowReadable(q[k])
        IN  /\ Len(q) # 8 =>
                   /\ ~cout.ok
                   /\ cout.exc \in {"TypeError", "IndexError", "ValueError"}
                   /\ readable => cout.exc = "TypeError"
            /\ (Len(q) = 8 /\ readable) =>
                   /\ cout.ok
                   /\ \A i \in 0..7 : cout.v[i] = OutletOfRow(q[i + 1])
            /\ cout.ok =>
                   \A a, b \in 1..Len(cdoc) :
                       (a < b /\ RowsWithValues(<<cdoc[a]>>) # <<>>
                              /\ RowsWithValues(<<cdoc[b]>>) # <<>>) =>
                           LET r == AllOutletsConfig_from_xml(SwapAt(cdoc, a, b))
                               i == PlaceOf(cdoc, a)
                               j == PlaceOf(cdoc, b)
                           IN  /\ r.ok
                               /\ r.v = [cout.v EXCEPT ![i] = cout.v[j], ![j] = cout.v[i]]

C5_Witness ==
    /\ ckind = "outlets" /\ cstep = "decoded" /\ cedits > 0
    /\ cout.ok
    /\ Len(RowsWithValues(cdoc)) = 8
    /\ \E i \in 0..7 :
           /\ RowsWithValues(cdoc)[i + 1][1].id # "otlt" \o ToString(i)
           /\ cout.v[i] = OutletOfRow(RowsWithValues(cdoc)[i + 1])
           /\ cout.v[i] # CommonOutlet

\* whether the first child with this tag exists, has text, and its text is
\* of the type the field wants
ChildWellFormed(doc, tag) ==
    LET hits == {i \in 1..Len(doc) : doc[i].tag = tag}
    IN  /\ hits # {}
        /\ LET child == doc[CHOOSE i \in hits : \A j \in hits : i <= j]
           IN  /\ child.hasText
               /\ tag = "cur0" => float_of(child.text).ok
               /\ tag \in {"tempCBan", "humBan"} => int_of(child.text).ok
               /\ tag \in {OutletStatTag(k) : k \in 0..7} =>
                      child.text \in {<<"o", "n">>, <<"o", "f", "f">>}
               /\ tag = "userVerifyRes" =>
                      /\ int_of(child.text).ok
                      /\ int_of(child.text).v \in 0..2

RequiredChildren ==
    {"cur0", "tempCBan", "humBan", "stat0", "userVerifyRes"}
    \cup {OutletStatTag(k) : k \in 0..7}

\* C6: PDUStatus.from_xml returns a record exactly when every required child
\* is there with a well-formed value, the record then has the 8 outlet
\* states in index order, and otherwise it raises: no stand-in value is put
\* into a record.
C6_AllOrNothing ==
    (ckind = "status" /\ cstep = "decoded") =>
        /\ cout.ok <=> \A tag \in RequiredChildren : ChildWellFormed(cdoc, tag)
        /\ ~cout.ok => cout.exc = "ValueError"
        /\ cout.ok =>
               /\ Len(cout.v.outlet_states) = 8
               /\ \A k \in 0..7 :
                      cout.v.outlet_states[k + 1] =
                          OutletState(extract_text_from_child(cdoc, OutletStatTag(k)).v).v

\* C8: the mapping to_dict makes of a NetworkConfiguration has the six keys
\* host, ip, mask, gate, dns1, dns2 with the record's strings; it has the
\* key dhcp, with "on", when enable_dhcp is true and has no key dhcp when it
\* is false.
C8_DhcpAsymmetry ==
    (ckind = "network" /\ cstep \in {"encoded", "rendered", "decoded"}) =>
        /\ {"host", "ip", "mask", "gate", "dns1", "dns2"} \subseteq DOMAIN cfields
        /\ DOMAIN cfields \subseteq {"host", "ip", "mask", "gate", "dns1", "dns2", "dhcp"}
        /\ cfields["host"] = cvalue.hostname
        /\ cfields["ip"] = cvalue.ip_address
        /\ cfields["mask"] = cvalue.subnet_mask
        /\ cfields["gate"] = cvalue.gateway
        /\ cfields["dns1"] = cvalue.primary_dns_ip
        /\ cfields["dns2"] = cvalue.secondary_dns_ip
        /\ cvalue.enable_dhcp => ("dhcp" \in DOMAIN cfields /\ cfields["dhcp"] = <<"o", "n">>)
        /\ ~cvalue.enable_dhcp => "dhcp" \notin DOMAIN cfields

C8_Witness ==
    /\ ckind = "network" /\ cstep = "encoded"
    /\ ~cvalue.enable_dhcp
    /\ "dhcp" \notin DOMAIN cfields
    /\ cfields["host"] = cvalue.hostname

(***************************************************************************)
(* Claims about the facade                                                 *)
(***************************************************************************)
\* C7: a credential change leaves the stored credentials alone until the
\* status read; when that read reports CREDENTIALS_CHANGED (userVerifyRes
\* 1) the stored credentials are the new ones and the next requests carry
\* them, and when it reports anything else the change raises
\* CredentialVerificationError and the stored credentials are the old ones.
C7_CredentialsFollowConfirmation ==
    /\ fpc = "posted" => credentials = oldCreds
    /\ fpc = "finished" =>
           /\ seenCode = 1 => (credentials = pendingNew /\ fresult = "ok")
           /\ seenCode # 1 =>
                  /\ credentials = oldCreds
                  /\ fresult = "CredentialVerificationError"
    /\ (fpc = "idle" /\ lastAuth # <<>>) => lastAuth = credentials

C7_Witness ==
    /\ fpc = "finished"
    /\ seenCode = 2
    /\ fresult = "CredentialVerificationError"
    /\ pendingNew # oldCreds
    /\ credentials = oldCreds

====
